---- MODULE Spec2Model ----
(***************************************************************************)
(* Lab-session expiration and cleanup: the SessionManager durable object   *)
(* (src/src/durable-objects/SessionManager.ts), the D1 table labs_sessions *)
(* it deletes from, and the request handlers that fill that table.         *)
(*                                                                         *)
(* One actor is modelled, the one addressed by idFromName(Self).  Its      *)
(* alarm handler is split at its awaits on external I/O (backend fetches,  *)
(* the D1 statement); `pc` is the handler's position.                      *)
(*                                                                         *)
(* Spec is the actor in a configured deployment.  SpecAnyEnv starts it in  *)
(* any deployment, SpecStorageFault lets storage.deleteAll() reject,       *)
(* SpecRequests repeats schedule requests, and SpecRetry follows one       *)
(* session through its retries, under fairness, until the backend          *)
(* recovers.  SpecOverlap lets a cancel request in between two awaits of   *)
(* the running handler, SpecUpdate updates the record of a scheduled       *)
(* session, and SpecPeers puts the actors of the other users next to it.   *)
(*                                                                         *)
(* SpecStore is the request handlers alone on the table.  SpecCron is the  *)
(* periodic scan of src/src/index.ts, SpecCronOverlap two runs of it, and  *)
(* SpecCompare runs the callBackendCleanup of the actor and of the scan    *)
(* for the same session against the same answers of the backend.           *)
(*                                                                         *)
(* SpecDurations sends schedule requests with durations of either sign,    *)
(* SpecLater lets the user's next session be created and scheduled while   *)
(* the handler of the earlier one awaits a response, and SpecRequestFault  *)
(* lets the storage operations of the schedule and cancel requests reject. *)
(***************************************************************************)
EXTENDS Integers, Sequences, FiniteSets, TLC

(***************************************************************************)
(* Bounds of the model                                                     *)
(***************************************************************************)
MaxWorkers == 2        \* longest worker_lab_request_ids list of a schedule request
MaxDuration == 1       \* largest duration (minutes) of a schedule request
MaxSessions == 1       \* successful schedule requests in one behaviour
MaxNowMinutes == 11    \* the clock stops advancing after this many minutes
MaxReschedules == 1    \* further successful schedule requests in a behaviour of SpecRequests
MaxAttempts == 4       \* alarm fires of a session that SpecRetry waits for while the backend is down
MaxCreating == 2       \* create requests that may be between their SELECT and their INSERT at once

(***************************************************************************)
(* Program constants                                                       *)
(***************************************************************************)
MsPerMinute == 60 * 1000
retryDelayMs == 5 * 60 * 1000

Self == "U1"
Users == {"U1", "U2"}
MasterIds == {"M"}
WorkerIds == {"M", "W1", "W2"}
NoAlarm == -1

StorageKeys == {"user_id", "lab_request_id", "worker_lab_request_ids", "duration", "created_at"}
EmptyStorage == [k \in {} |-> 0]

(***************************************************************************)
(* Pure helpers                                                            *)
(***************************************************************************)
Range(s) == {s[i] : i \in 1..Len(s)}

SeqsUpTo(S, n) == UNION {[1..k -> S] : k \in 0..n}

\* JSON.stringify of a string array, as a sequence of tokens:
\* ["a","b"] is <<"[", "a", ",", "b", "]">>.
JSONStringify(arr) ==
  <<"[">> \o
  [i \in 1..(IF Len(arr) = 0 THEN 0 ELSE 2 * Len(arr) - 1) |->
      IF i % 2 = 1 THEN arr[(i + 1) \div 2] ELSE ","] \o
  <<"]">>

\* JSON.parse of such a token sequence.
JSONParse(json) ==
  LET inner == SubSeq(json, 2, Len(json) - 1)
  IN [i \in 1..((Len(inner) + 1) \div 2) |-> inner[2 * i - 1]]

\* Array.from(new Set(arr)): first occurrences, in insertion order.
RECURSIVE ArrayFromSet(_)
ArrayFromSet(arr) ==
  IF arr = <<>> THEN <<>>
  ELSE LET init == ArrayFromSet(SubSeq(arr, 1, Len(arr) - 1))
           x == arr[Len(arr)]
       IN IF x \in Range(init) THEN init ELSE Append(init, x)

\* The fetch outcomes of the two backend requests: an HTTP status with a
\* readable JSON body, a 2xx whose body cannot be read as JSON, and a
\* network error (fetch rejects).
ServiceOutcomes == {"200", "200_badbody", "500", "neterr"}
VmOutcomes == {"200", "202", "200_badbody", "500", "neterr"}
\* D1 run(): result.success true, result.success false, or a thrown error.
DbOutcomes == {"success", "not_success", "throw"}

\* One iteration of the VM loop ends in allVmDeleteResponses (TRUE) or in
\* allVmDeleteErrors (FALSE): vmResponse.ok and vmResponse.json() readable.
VmDeleted(out) == out \in {"200", "202"}

\* Mutant: deleteFromDatabase does not look at result.success.
DbDeleted_ignoresResult(out) == out # "throw"

\* deleteFromDatabase returns normally only when result.success.
DbDeleted(out) == out = "success"

(***************************************************************************)
(* State                                                                   *)
(***************************************************************************)
VARIABLES
  storage,               \* this.state.storage: a function from the keys present to their values
  alarm,                 \* the actor's single alarm slot (ms), or NoAlarm
  fired,                 \* the platform has taken a due alarm and is about to invoke alarm()
  now,                   \* Date.now() (ms)
  env,                   \* which of BACKEND_API_URL / BACKEND_API_TOKEN are configured
  db,                    \* the rows of labs_sessions
  pc,                    \* position of the alarm handler: idle, services, vm, db, clear, done
  h,                     \* the handler's locals read from storage when it started
  allLabRequestIds,      \* callBackendCleanup: the deduplicated ids of this call
  idx,                   \* callBackendCleanup: position of the VM loop in allLabRequestIds
  allVmDeleteResponses,  \* callBackendCleanup: ids deleted in this call
  allVmDeleteErrors,     \* callBackendCleanup: failures of this call
  calls,                 \* requests issued by the running alarm fire, in order
  verdict,               \* outcome of the fire's callBackendCleanup: none, ok, fail
  result,                \* how the fire ended: none, noop, cleaned, retry
  raised,                \* an exception escaped alarm()
  last,                  \* summary of the latest finished cleanup attempt of this session
  sessions,              \* number of successful schedule requests so far
  cancelled,             \* cancelCleanup succeeded and no schedule succeeded since
  healthy,               \* the backend and the store have recovered for good
  resp,                  \* the Response of the step, when the step was a request
  replaced,              \* the alarm slot as the step's schedule request found it
  creating,              \* createLabSession calls between their SELECT and their INSERT
  scans,                 \* the runs of cleanupExpiredSessions: position and locals of each
  backend,               \* how the backend answers each request, where a behaviour fixes it
  actors                 \* storage and alarm slot of the actors of the other users

vars == <<storage, alarm, fired, now, env, db, pc, h, allLabRequestIds, idx,
          allVmDeleteResponses, allVmDeleteErrors, calls, verdict, result,
          raised, last, sessions, cancelled, healthy, resp, replaced,
          creating, scans, backend, actors>>

localVars == <<h, allLabRequestIds, idx, allVmDeleteResponses, allVmDeleteErrors>>
traceVars == <<calls, verdict, result, raised>>
handlerVars == <<localVars, traceVars>>
\* What lies outside the actor of Self and the table.
worldVars == <<creating, scans, backend, actors>>
\* The actor of Self.
actorVars == <<storage, alarm, fired, pc, handlerVars, last, sessions, cancelled>>

NoLocals == [user_id |-> "", lab_request_id |-> "", worker_lab_request_ids |-> <<>>,
             duration |-> 0, created_at |-> <<>>]
\* n attempts so far, of which orchFailed ended in a failed callBackendCleanup;
\* dbCalls store deletions and clears storage.deleteAll() calls were made.
NoAttempt == [n |-> 0, failed |-> {}, db |-> "none", orchFailed |-> 0, dbCalls |-> 0, clears |-> 0]

\* Mutant: a value that is not stored is read as the text "undefined".
StoredStr_undefinedAsText(k) == IF k \in DOMAIN storage THEN storage[k] ELSE "undefined"

\* storage.get(key) of a string key: undefined reads as the empty (falsy) string.
StoredStr(k) == IF k \in DOMAIN storage THEN storage[k] ELSE ""
\* storage.get(key) of a number key: undefined reads as 0 (falsy).
StoredNum(k) == IF k \in DOMAIN storage THEN storage[k] ELSE 0

\* storage.get(key) of the date key: undefined reads as no string.
StoredDate(k) == IF k \in DOMAIN storage THEN storage[k] ELSE <<>>

\* worker_nodes of a row without worker nodes.
NULL == <<>>

\* A labs_sessions row, in the columns that the handlers and the cleanup
\* paths read or write.
Row(id, user_id, lab_request_id, worker_nodes, duration) ==
  [id |-> id, user_id |-> user_id, lab_request_id |-> lab_request_id,
   worker_nodes |-> worker_nodes, duration |-> duration]

\* SELECT ... FROM labs_sessions WHERE user_id = ?
RowsOf(u) == {r \in db : r.user_id = u}
HasRow(u) == RowsOf(u) # {}

\* The worker_lab_request_id of every node of a worker_nodes column.
WorkerLabRequestIds(worker_nodes_json) ==
  IF worker_nodes_json = NULL THEN <<>> ELSE JSONParse(worker_nodes_json)

\* Mutant: the DELETE statement has no WHERE clause.
DeleteByUser_everyRow(u) == {}

\* DELETE FROM labs_sessions WHERE user_id = ?
DeleteByUser(u) == {r \in db : r.user_id # u}

\* Mutant: the table has no UNIQUE constraint on user_id.
ConstraintFailed_noUnique(row) == \E r \in db : r.id = row.id

\* INSERT INTO labs_sessions fails: id is the PRIMARY KEY, user_id is UNIQUE.
ConstraintFailed(row) == \E r \in db : r.id = row.id \/ r.user_id = row.user_id

\* new Date(ms).toISOString(): the instant written out to the millisecond.
ToISOString(ms) == <<"ISO", ms \div 1000, ms % 1000>>

\* Date.parse of such a string.
DateParse(iso) == iso[2] * 1000 + iso[3]

\* No request to the actor was handled in the step.
NoResponse == [op |-> "none", status |-> 0, success |-> FALSE, user_id |-> "", expires_at |-> <<>>]
NotARequest == resp' = NoResponse /\ replaced' = NoAlarm

\* The runs of the periodic scan that may be under way at once.
ScanIds == {"scan1", "scan2"}
\* No row.
NoRow == [id |-> <<>>, user_id |-> "", lab_request_id |-> "", worker_nodes |-> <<>>,
          duration |-> 0]
\* A run of cleanupExpiredSessions that has not started or is over: its
\* position (off, services, vm, db, return), the
\* rows of its SELECT still to come, the row it is at, the locals and the
\* requests of callBackendCleanup for that row and how the call ended, and
\* the users whose sessions the run selected, cleaned up and failed on.
NoScan == [pc |-> "off", results |-> <<>>, session |-> NoRow, ids |-> <<>>, idx |-> 0,
           errors |-> <<>>, calls |-> <<>>, verdict |-> "none",
           selected |-> {}, cleaned |-> {}, failed |-> {}]
\* No answer of the backend is fixed in advance.
AnyAnswer == <<>>
\* An actor that holds no stored field and no alarm.
NoActor == [storage |-> EmptyStorage, alarm |-> NoAlarm]

\* The state after construction, but for env.
InitState ==
  /\ storage = EmptyStorage
  /\ alarm = NoAlarm
  /\ fired = FALSE
  /\ now = 0
  /\ db = {}
  /\ pc = "idle"
  /\ h = NoLocals
  /\ allLabRequestIds = <<>>
  /\ idx = 0
  /\ allVmDeleteResponses = <<>>
  /\ allVmDeleteErrors = <<>>
  /\ calls = <<>>
  /\ verdict = "none"
  /\ result = "none"
  /\ raised = FALSE
  /\ last = NoAttempt
  /\ sessions = 0
  /\ cancelled = FALSE
  /\ healthy = FALSE
  /\ resp = NoResponse
  /\ replaced = NoAlarm
  /\ creating = {}
  /\ scans = [r \in ScanIds |-> NoScan]
  /\ backend = AnyAnswer
  /\ actors = [u \in Users \ {Self} |-> NoActor]

\* A deployment with both backend secrets set.
Init ==
  /\ env = [BACKEND_API_URL |-> TRUE, BACKEND_API_TOKEN |-> TRUE]
  /\ InitState

\* A deployment in which either backend secret may be unset.
InitAnyEnv ==
  /\ env \in [BACKEND_API_URL : BOOLEAN, BACKEND_API_TOKEN : BOOLEAN]
  /\ InitState

(***************************************************************************)
(* Request layer: the labs_sessions table                                  *)
(***************************************************************************)
\* The session a user's client creates when nothing else is said: its own
\* session id, the master VM "M", no worker nodes, one minute.
SessionBody(u) == Row(<<"session", u>>, u, "M", NULL, 1)

\* POST /api/v1/labs/sessions: 409 when the user has a row, else INSERT.
createLabSession(u) ==
  /\ pc = "idle"
  /\ db' = IF HasRow(u) \/ ConstraintFailed(SessionBody(u))
             THEN db
             ELSE db \cup {SessionBody(u)}
  /\ NotARequest
  /\ UNCHANGED <<storage, alarm, fired, now, env, worldVars, healthy, handlerVars, pc, last, cancelled, sessions>>

\* A field that a request body does not have: a text, a list, a number.
Undefined == "undefined"
UndefinedList == <<Undefined>>
UndefinedNumber == -1

\* crypto.randomUUID(): a value that no row and no create request under way
\* carries.
Uuid(k) == <<"uuid", k>>
generateUUID ==
  LET used == {r.id : r \in db} \cup {c.sessionId : c \in creating}
  IN Uuid(CHOOSE k \in 1..(Cardinality(used) + 1) :
            /\ Uuid(k) \notin used
            /\ \A j \in 1..(k - 1) : Uuid(j) \in used)

\* worker_nodes lists of request bodies, each node by its worker_lab_request_id.
NodeLists == {<<"W2">>}

\* Bodies of POST /api/v1/labs/sessions, in the columns modelled and with
\* the required number `validation`; every field of requiredFields is
\* there, the user_id may be the empty text and a number may be 0.
CreateBodies ==
  [id : {Undefined}, user_id : Users \cup {""}, lab_request_id : {"M"},
   worker_nodes : {UndefinedList, <<"W1">>}, duration : {0, 1}, validation : {0, 1}]

\* validateRequiredFields: !body[field] for a required field, which is true
\* of the empty text and of the number 0.
MissingCreateFields(body) ==
  \/ body.user_id = ""
  \/ body.lab_request_id = ""
  \/ body.duration = 0
  \/ body.validation = 0

\* The values bound to the INSERT statement.
InsertedRow(c) ==
  Row(c.sessionId, c.body.user_id, c.body.lab_request_id,
      IF c.body.worker_nodes = UndefinedList THEN NULL ELSE JSONStringify(c.body.worker_nodes),
      c.body.duration)

CreateResponse(body, status) ==
  [op |-> "create", status |-> status, success |-> status = 201,
   user_id |-> body.user_id, expires_at |-> <<>>]

\* createLabSession up to its INSERT: validation, then the SELECT that looks
\* for a session of the user.
createLabSessionSelect(body) ==
  /\ Cardinality(creating) < MaxCreating
  /\ IF MissingCreateFields(body)
       THEN /\ resp' = CreateResponse(body, 400)
            /\ UNCHANGED creating
       ELSE IF HasRow(body.user_id)
              THEN /\ resp' = CreateResponse(body, 409)
                   /\ UNCHANGED creating
              ELSE /\ resp' = NoResponse
                   /\ creating' = creating \cup
                        {[body |-> body,
                          sessionId |-> IF body.id = Undefined THEN generateUUID ELSE body.id]}
  /\ replaced' = NoAlarm
  /\ UNCHANGED <<db, actorVars, now, env, healthy, scans, backend, actors>>

\* The INSERT of createLabSession returns: 201, or the constraint error the
\* catch block turns into 500.
createLabSessionInsert(c) ==
  /\ c \in creating
  /\ creating' = creating \ {c}
  /\ IF ConstraintFailed(InsertedRow(c))
       THEN /\ resp' = CreateResponse(c.body, 500)
            /\ db' = db
       ELSE /\ resp' = CreateResponse(c.body, 201)
            /\ db' = db \cup {InsertedRow(c)}
  /\ replaced' = NoAlarm
  /\ UNCHANGED <<actorVars, now, env, healthy, scans, backend, actors>>

\* Bodies of PUT /api/v1/labs/sessions/:user_id, in the columns modelled and
\* with a field the handler does not know.
UpdateBodies ==
  [worker_nodes : {UndefinedList} \cup NodeLists,
   duration : {UndefinedNumber, 0},
   lab_request_id : {Undefined, "M2"}]

\* Mutant: the update also writes lab_request_id.
UpdatedRow_writesLabRequestId(r, body) ==
  [r EXCEPT !.worker_nodes = IF body.worker_nodes # UndefinedList
                               THEN JSONStringify(body.worker_nodes) ELSE @,
            !.duration = IF body.duration # UndefinedNumber THEN body.duration ELSE @,
            !.lab_request_id = IF body.lab_request_id # Undefined
                                 THEN body.lab_request_id ELSE @]

\* UPDATE labs_sessions SET <the fields of the body that are known> on one row.
UpdatedRow(r, body) ==
  [r EXCEPT !.worker_nodes = IF body.worker_nodes # UndefinedList
                               THEN JSONStringify(body.worker_nodes) ELSE @,
            !.duration = IF body.duration # UndefinedNumber THEN body.duration ELSE @]

\* updateFields.length === 0
NoValidFields(body) ==
  body.worker_nodes = UndefinedList /\ body.duration = UndefinedNumber

UpdateResponse(userId, status) ==
  [op |-> "update", status |-> status, success |-> status = 200,
   user_id |-> userId, expires_at |-> <<>>]

\* Mutant: an update of the duration also moves the alarm of the user's actor.
updateLabSession_reschedules(userId, body) ==
  /\ replaced' = NoAlarm
  /\ IF ~HasRow(userId)
       THEN /\ resp' = UpdateResponse(userId, 404)
            /\ UNCHANGED <<db, alarm>>
       ELSE IF NoValidFields(body)
              THEN /\ resp' = UpdateResponse(userId, 400)
                   /\ UNCHANGED <<db, alarm>>
              ELSE /\ resp' = UpdateResponse(userId, 200)
                   /\ db' = {IF r.user_id = userId THEN UpdatedRow(r, body) ELSE r : r \in db}
                   /\ alarm' = IF body.duration # UndefinedNumber /\ alarm # NoAlarm /\ userId = Self
                                 THEN now + body.duration * 60 * 1000
                                 ELSE alarm
  /\ UNCHANGED <<storage, fired, pc, handlerVars, last, sessions, cancelled,
                 now, env, healthy, worldVars>>

\* PUT /api/v1/labs/sessions/:user_id
updateLabSession(userId, body) ==
  /\ replaced' = NoAlarm
  /\ IF ~HasRow(userId)
       THEN /\ resp' = UpdateResponse(userId, 404)
            /\ db' = db
       ELSE IF NoValidFields(body)
              THEN /\ resp' = UpdateResponse(userId, 400)
                   /\ db' = db
              ELSE /\ resp' = UpdateResponse(userId, 200)
                   /\ db' = {IF r.user_id = userId THEN UpdatedRow(r, body) ELSE r : r \in db}
  /\ UNCHANGED <<actorVars, now, env, healthy, worldVars>>

(***************************************************************************)
(* SessionManager.scheduleCleanup                                          *)
(***************************************************************************)
\* Mutant: the duration is not validated.
MissingRequiredFields_durationNotChecked(user_id, lab_request_id, duration) ==
  user_id = "" \/ lab_request_id = ""

\* !user_id || !lab_request_id || !duration
MissingRequiredFields(user_id, lab_request_id, duration) ==
  user_id = "" \/ lab_request_id = "" \/ duration = 0

\* Mutant: the duration is taken as seconds.
ExpirationMs_seconds(duration) == now + (duration * 1000)

\* expirationMs
ExpirationMs(duration) == now + (duration * 60 * 1000)

\* hasWorkers = FALSE is a body without worker_lab_request_ids.
scheduleCleanup(user_id, lab_request_id, hasWorkers, worker_lab_request_ids, duration) ==
  /\ pc = "idle"
  /\ IF MissingRequiredFields(user_id, lab_request_id, duration)
       THEN /\ resp' = [op |-> "schedule", status |-> 400, success |-> FALSE,
                        user_id |-> "", expires_at |-> <<>>]
            /\ replaced' = NoAlarm
            /\ UNCHANGED <<storage, alarm, fired, last, sessions, cancelled>>
       ELSE /\ sessions' = sessions + 1
            /\ resp' = [op |-> "schedule", status |-> 200, success |-> TRUE,
                        user_id |-> user_id,
                        expires_at |-> ToISOString(ExpirationMs(duration))]
            /\ replaced' = alarm
            /\ storage' =
                 [k \in StorageKeys |->
                    CASE k = "user_id" -> user_id
                      [] k = "lab_request_id" -> lab_request_id
                      [] k = "worker_lab_request_ids" ->
                           JSONStringify(IF hasWorkers THEN worker_lab_request_ids ELSE <<>>)
                      [] k = "duration" -> duration
                      [] k = "created_at" -> ToISOString(now)]
            /\ alarm' = ExpirationMs(duration)    \* setAlarm replaces the alarm, and
            /\ fired' = FALSE                     \* with it an invocation not yet begun
            /\ last' = NoAttempt
            /\ cancelled' = FALSE
  /\ UNCHANGED <<now, env, worldVars, healthy, db, handlerVars, pc>>

\* request.json() rejects (the body is not JSON): the catch block answers 500.
scheduleCleanupUnreadable ==
  /\ pc = "idle"
  /\ resp' = [op |-> "schedule", status |-> 500, success |-> FALSE,
              user_id |-> "", expires_at |-> <<>>]
  /\ replaced' = NoAlarm
  /\ UNCHANGED <<storage, alarm, fired, now, env, worldVars, healthy, db, handlerVars, pc, last, sessions, cancelled>>

(***************************************************************************)
(* SessionManager.cancelCleanup                                            *)
(***************************************************************************)
\* Mutant: cancelCleanup clears the storage but leaves the alarm.
cancelCleanup_keepsAlarm ==
  /\ pc = "idle"
  /\ resp' = [op |-> "cancel", status |-> 200, success |-> TRUE,
              user_id |-> StoredStr("user_id"), expires_at |-> <<>>]
  /\ replaced' = NoAlarm
  /\ alarm' = alarm
  /\ storage' = EmptyStorage
  /\ last' = NoAttempt
  /\ cancelled' = TRUE
  /\ UNCHANGED <<fired, now, env, worldVars, healthy, db, handlerVars, pc, sessions>>

cancelCleanup ==
  /\ pc = "idle"
  /\ resp' = [op |-> "cancel", status |-> 200, success |-> TRUE,
              user_id |-> StoredStr("user_id"), expires_at |-> <<>>]
  /\ replaced' = NoAlarm
  /\ alarm' = NoAlarm               \* storage.deleteAlarm()
  /\ storage' = EmptyStorage        \* storage.deleteAll()
  /\ last' = NoAttempt
  /\ cancelled' = TRUE
  /\ UNCHANGED <<fired, now, env, worldVars, healthy, db, handlerVars, pc, sessions>>

\* DELETE /api/v1/labs/sessions/:user_id: cancels the user's actor and
\* removes the user's row.
deleteLabSession(u) ==
  /\ pc = "idle"
  /\ NotARequest
  /\ db' = DeleteByUser(u)
  /\ IF u = Self
       THEN /\ alarm' = NoAlarm
            /\ storage' = EmptyStorage
            /\ last' = NoAttempt
            /\ cancelled' = TRUE
       ELSE UNCHANGED <<alarm, storage, last, cancelled>>
  /\ UNCHANGED <<fired, now, env, worldVars, healthy, handlerVars, pc, sessions>>

\* cancelCleanup delivered while alarm() awaits the response of a backend
\* request or of the D1 statement: the handler holds no lock, and its locals
\* were read from storage before.
cancelCleanupWhileAwaiting ==
  /\ pc \in {"services", "vm", "db"}
  /\ resp' = [op |-> "cancel", status |-> 200, success |-> TRUE,
              user_id |-> StoredStr("user_id"), expires_at |-> <<>>]
  /\ replaced' = NoAlarm
  /\ alarm' = NoAlarm               \* storage.deleteAlarm()
  /\ storage' = EmptyStorage        \* storage.deleteAll()
  /\ last' = NoAttempt
  /\ cancelled' = TRUE
  /\ UNCHANGED <<fired, now, env, worldVars, healthy, db, handlerVars, pc, sessions>>

\* The delete-session request handled while alarm() awaits such a response.
deleteLabSessionWhileAwaiting(u) ==
  /\ pc \in {"services", "vm", "db"}
  /\ NotARequest
  /\ db' = DeleteByUser(u)
  /\ IF u = Self
       THEN /\ alarm' = NoAlarm
            /\ storage' = EmptyStorage
            /\ last' = NoAttempt
            /\ cancelled' = TRUE
       ELSE UNCHANGED <<alarm, storage, last, cancelled>>
  /\ UNCHANGED <<fired, now, env, worldVars, healthy, handlerVars, pc, sessions>>

\* scheduleCleanup handled while alarm() awaits such a response.
scheduleCleanupWhileAwaiting(user_id, lab_request_id, hasWorkers, worker_lab_request_ids, duration) ==
  /\ pc \in {"services", "vm", "db"}
  /\ IF MissingRequiredFields(user_id, lab_request_id, duration)
       THEN /\ resp' = [op |-> "schedule", status |-> 400, success |-> FALSE,
                        user_id |-> "", expires_at |-> <<>>]
            /\ replaced' = NoAlarm
            /\ UNCHANGED <<storage, alarm, fired, last, sessions, cancelled>>
       ELSE /\ sessions' = sessions + 1
            /\ resp' = [op |-> "schedule", status |-> 200, success |-> TRUE,
                        user_id |-> user_id,
                        expires_at |-> ToISOString(ExpirationMs(duration))]
            /\ replaced' = alarm
            /\ storage' =
                 [k \in StorageKeys |->
                    CASE k = "user_id" -> user_id
                      [] k = "lab_request_id" -> lab_request_id
                      [] k = "worker_lab_request_ids" ->
                           JSONStringify(IF hasWorkers THEN worker_lab_request_ids ELSE <<>>)
                      [] k = "duration" -> duration
                      [] k = "created_at" -> ToISOString(now)]
            /\ alarm' = ExpirationMs(duration)
            /\ fired' = FALSE
            /\ last' = NoAttempt
            /\ cancelled' = FALSE
  /\ UNCHANGED <<now, env, worldVars, healthy, db, handlerVars, pc>>

\* The storage operations of scheduleCleanup in their order: the five puts
\* by their key, then setAlarm.
ScheduleOps ==
  <<"user_id", "lab_request_id", "worker_lab_request_ids", "duration", "created_at", "setAlarm">>

\* scheduleCleanup when its k-th storage operation rejects: the operations
\* before it have taken effect, the catch block answers 500.
scheduleCleanupRejects(user_id, lab_request_id, hasWorkers, worker_lab_request_ids, duration, k) ==
  /\ pc = "idle"
  /\ ~MissingRequiredFields(user_id, lab_request_id, duration)
  /\ k \in 1..Len(ScheduleOps)
  /\ LET written == {ScheduleOps[i] : i \in 1..(k - 1)}
     IN storage' =
          [key \in DOMAIN storage \cup written |->
             IF key \notin written THEN storage[key]
             ELSE CASE key = "user_id" -> user_id
                    [] key = "lab_request_id" -> lab_request_id
                    [] key = "worker_lab_request_ids" ->
                         JSONStringify(IF hasWorkers THEN worker_lab_request_ids ELSE <<>>)
                    [] key = "duration" -> duration
                    [] key = "created_at" -> ToISOString(now)]
  /\ resp' = [op |-> "schedule", status |-> 500, success |-> FALSE,
              user_id |-> "", expires_at |-> <<>>]
  /\ replaced' = NoAlarm
  /\ UNCHANGED <<alarm, fired, now, env, worldVars, healthy, db, handlerVars, pc, last,
                 sessions, cancelled>>

\* The storage operations of cancelCleanup in their order.
CancelOps == <<"get", "deleteAlarm", "deleteAll">>

\* cancelCleanup when its k-th storage operation rejects: the operations
\* before it have taken effect, the catch block answers 500.
cancelCleanupRejects(k) ==
  /\ pc = "idle"
  /\ k \in 1..Len(CancelOps)
  /\ alarm' = IF CancelOps[k] = "deleteAll" THEN NoAlarm ELSE alarm
  /\ resp' = [op |-> "cancel", status |-> 500, success |-> FALSE,
              user_id |-> "", expires_at |-> <<>>]
  /\ replaced' = NoAlarm
  /\ UNCHANGED <<storage, fired, now, env, worldVars, healthy, db, handlerVars, pc, last,
                 sessions, cancelled>>

(***************************************************************************)
(* The platform: clock and alarm delivery                                  *)
(***************************************************************************)
\* A minute passes.  The clock is followed while an alarm is pending; alarms
\* are delivered, and handlers run, without delay.
Tick ==
  /\ pc = "idle"
  /\ ~fired
  /\ alarm # NoAlarm
  /\ now < alarm
  /\ now < MaxNowMinutes * MsPerMinute
  /\ now' = now + MsPerMinute
  /\ NotARequest
  /\ UNCHANGED <<storage, alarm, fired, env, worldVars, healthy, db, pc, handlerVars, last, cancelled, sessions>>

\* The time until the pending alarm passes.
WaitForAlarm ==
  /\ pc = "idle"
  /\ ~fired
  /\ alarm # NoAlarm
  /\ now < alarm
  /\ healthy \/ last.n < MaxAttempts
  /\ now' = alarm
  /\ NotARequest
  /\ UNCHANGED <<storage, alarm, fired, env, worldVars, healthy, db, pc, handlerVars, last, cancelled, sessions>>

\* From now on every delete-resource request and every store deletion
\* succeeds.
BackendRecovers ==
  /\ ~healthy
  /\ healthy' = TRUE
  /\ NotARequest
  /\ UNCHANGED <<storage, alarm, fired, now, env, worldVars, db, pc, handlerVars, last, cancelled, sessions>>

\* A due alarm leaves the alarm slot and its alarm() invocation is queued.
AlarmDue ==
  /\ pc = "idle"
  /\ ~fired
  /\ alarm # NoAlarm
  /\ now >= alarm
  /\ alarm' = NoAlarm
  /\ fired' = TRUE
  /\ NotARequest
  /\ UNCHANGED <<storage, now, env, worldVars, healthy, db, pc, handlerVars, last, cancelled, sessions>>

(***************************************************************************)
(* SessionManager.alarm, with callBackendCleanup and deleteFromDatabase    *)
(***************************************************************************)
\* Mutant: alarm() does not check that the session data is there.
MissingSessionData_notChecked(user_id, lab_request_id) == FALSE

\* !user_id || !lab_request_id
MissingSessionData(user_id, lab_request_id) ==
  user_id = "" \/ lab_request_id = ""

\* worker_lab_request_ids_json ? JSON.parse(worker_lab_request_ids_json) : []
StoredWorkers ==
  IF "worker_lab_request_ids" \in DOMAIN storage
    THEN JSONParse(storage["worker_lab_request_ids"])
    ELSE <<>>

\* The requests of one kind in a log of requests.
CallsOf(log, op) == {i \in 1..Len(log) : log[i].op = op}

\* What the finished alarm fire leaves of itself: the ids whose deletion
\* failed and how the store deletion went, and the session's running counts
\* of failed orchestrations, store deletions and state clears.
AttemptSummary ==
  [n |-> last.n + 1,
   failed |-> {calls[i].id : i \in {j \in CallsOf(calls, "delete") : ~calls[j].ok}},
   db |-> IF CallsOf(calls, "db_delete") = {} THEN "none"
          ELSE IF \A i \in CallsOf(calls, "db_delete") : calls[i].ok THEN "ok" ELSE "fail",
   orchFailed |-> last.orchFailed + (IF verdict = "ok" THEN 0 ELSE 1),
   dbCalls |-> last.dbCalls + Cardinality(CallsOf(calls, "db_delete")),
   clears |-> last.clears + Cardinality(CallsOf(calls, "clear"))]

\* Mutant: no retry is scheduled after the third failed attempt.
CleanupFailed_givesUp ==
  /\ alarm' = IF last.n >= 2 THEN alarm ELSE now + retryDelayMs
  /\ storage' = storage
  /\ raised' = FALSE
  /\ result' = "retry"
  /\ pc' = "done"

\* Mutant: the retry delay grows with the number of failed attempts.
CleanupFailed_backoff ==
  /\ alarm' = now + retryDelayMs * (last.n + 1)
  /\ storage' = storage
  /\ raised' = FALSE
  /\ result' = "retry"
  /\ pc' = "done"

\* Mutant: alarm() has no catch block, the error escapes and no alarm is set.
CleanupFailed_rethrows ==
  /\ alarm' = alarm
  /\ storage' = storage
  /\ raised' = TRUE
  /\ result' = "retry"
  /\ pc' = "done"

\* The catch block of alarm(): a retry alarm, nothing else, no rethrow.
CleanupFailed ==
  /\ alarm' = now + retryDelayMs
  /\ storage' = storage
  /\ raised' = FALSE
  /\ result' = "retry"
  /\ pc' = "done"

\* Mutant: only the URL is checked.
NotConfigured_onlyUrl == ~env.BACKEND_API_URL

\* callBackendCleanup throws before any request when the backend is not configured.
NotConfigured == ~env.BACKEND_API_URL \/ ~env.BACKEND_API_TOKEN

\* Mutant: the ids are not deduplicated.
AllLabRequestIds_keepsDuplicates(master_lab_request_id, worker_lab_request_ids) ==
  <<master_lab_request_id>> \o worker_lab_request_ids

\* Mutant: a retry takes only the ids whose deletion failed in the attempt before.
AllLabRequestIds_onlyFailed(master_lab_request_id, worker_lab_request_ids) ==
  LET all == ArrayFromSet(<<master_lab_request_id>> \o worker_lab_request_ids)
      isFailed(id) == id \in last.failed
  IN IF last.failed # {} THEN SelectSeq(all, isFailed) ELSE all

\* Mutant: a retry takes only the master id.
AllLabRequestIds_masterOnRetry(master_lab_request_id, worker_lab_request_ids) ==
  IF last.n > 0
    THEN <<master_lab_request_id>>
    ELSE ArrayFromSet(<<master_lab_request_id>> \o worker_lab_request_ids)

\* Mutant: the worker ids are deleted before the master id.
AllLabRequestIds_workersFirst(master_lab_request_id, worker_lab_request_ids) ==
  ArrayFromSet(worker_lab_request_ids \o <<master_lab_request_id>>)

\* allLabRequestIds of callBackendCleanup.
AllLabRequestIds(master_lab_request_id, worker_lab_request_ids) ==
  ArrayFromSet(<<master_lab_request_id>> \o worker_lab_request_ids)

\* alarm() up to its first backend request.
AlarmStart ==
  /\ pc = "idle"
  /\ fired
  /\ fired' = FALSE
  /\ NotARequest
  /\ LET user_id == StoredStr("user_id")
         lab_request_id == StoredStr("lab_request_id")
         worker_lab_request_ids == StoredWorkers
     IN /\ h' = [user_id |-> user_id, lab_request_id |-> lab_request_id,
                 worker_lab_request_ids |-> worker_lab_request_ids,
                 duration |-> StoredNum("duration"),
                 created_at |-> StoredDate("created_at")]
        /\ IF MissingSessionData(user_id, lab_request_id)
             THEN /\ result' = "noop"
                  /\ pc' = "done"
                  /\ UNCHANGED <<storage, alarm, raised, last, allLabRequestIds, idx>>
             ELSE IF NotConfigured
                    THEN /\ CleanupFailed
                         /\ UNCHANGED <<allLabRequestIds, idx, last>>
                    ELSE /\ allLabRequestIds' = AllLabRequestIds(lab_request_id, worker_lab_request_ids)
                         /\ idx' = 1
                         /\ pc' = "services"
                         /\ UNCHANGED <<storage, alarm, raised, result, last>>
  /\ UNCHANGED <<now, env, worldVars, healthy, db, cancelled, sessions, calls, verdict,
                 allVmDeleteResponses, allVmDeleteErrors>>

\* servicesResponse.ok and servicesResponse.json() readable.
ServicesDeleted(out) == out = "200"

\* Mutant: a failed service deletion is thrown to alarm()'s catch block.
ServicesDone_escalates(out) ==
  /\ pc = "services"
  /\ NotARequest
  /\ calls' = Append(calls, [op |-> "expose", id |-> h.lab_request_id, user_id |-> "",
                            ok |-> ServicesDeleted(out)])
  /\ IF ServicesDeleted(out)
       THEN /\ pc' = "vm"
            /\ UNCHANGED <<storage, alarm, result, raised>>
       ELSE CleanupFailed
  /\ UNCHANGED <<fired, now, env, worldVars, healthy, db, localVars, verdict, last, cancelled, sessions>>

\* Step 1 of callBackendCleanup: the DELETE /api/v1/expose/ request for the
\* master id returns; every outcome is logged and dropped.
ServicesDone(out) ==
  /\ pc = "services"
  /\ NotARequest
  /\ calls' = Append(calls, [op |-> "expose", id |-> h.lab_request_id, user_id |-> "",
                            ok |-> ServicesDeleted(out)])
  /\ pc' = "vm"
  /\ UNCHANGED <<storage, alarm, fired, now, env, worldVars, healthy, db, localVars, verdict, result,
                 raised, last, cancelled, sessions>>

\* Mutant: the loop stops at the first failed deletion.
MoreVms_stopsOnError(i, errors) == i < Len(allLabRequestIds) /\ errors = <<>>

\* The for loop has another id after position i.
MoreVms(i, errors) == i < Len(allLabRequestIds)

\* Mutant: callBackendCleanup throws only when every deletion failed.
AnyVmDeleteError_allFailed(errors) == Len(errors) = Len(allLabRequestIds)

\* Mutant: callBackendCleanup never throws for failed deletions.
AnyVmDeleteError_never(errors) == FALSE

\* allVmDeleteErrors.length > 0: callBackendCleanup throws.
AnyVmDeleteError(errors) == Len(errors) > 0

\* Mutant: alarm() deletes the store record before it looks at the verdict
\* of callBackendCleanup.
VmDone_deletesRecordFirst(out) ==
  /\ pc = "vm"
  /\ NotARequest
  /\ LET lab_request_id == allLabRequestIds[idx]
         responses == IF VmDeleted(out)
                        THEN Append(allVmDeleteResponses, lab_request_id)
                        ELSE allVmDeleteResponses
         errors == IF VmDeleted(out)
                     THEN allVmDeleteErrors
                     ELSE Append(allVmDeleteErrors, lab_request_id)
         deleted == [op |-> "delete", id |-> lab_request_id,
                     user_id |-> h.user_id, ok |-> VmDeleted(out)]
     IN /\ allVmDeleteResponses' = responses
        /\ allVmDeleteErrors' = errors
        /\ IF MoreVms(idx, errors)
             THEN /\ idx' = idx + 1
                  /\ calls' = Append(calls, deleted)
                  /\ UNCHANGED <<pc, verdict, result, raised, storage, alarm, last, db>>
             ELSE /\ idx' = idx
                  /\ IF AnyVmDeleteError(errors)
                       THEN /\ verdict' = "fail"
                            /\ calls' = Append(Append(calls, deleted),
                                               [op |-> "db_delete", id |-> "",
                                                user_id |-> h.user_id, ok |-> TRUE])
                            /\ db' = DeleteByUser(h.user_id)
                            /\ CleanupFailed
                            /\ last' = last
                       ELSE /\ verdict' = "ok"
                            /\ calls' = Append(calls, deleted)
                            /\ pc' = "db"
                            /\ UNCHANGED <<result, raised, storage, alarm, last, db>>
  /\ UNCHANGED <<fired, now, env, worldVars, healthy, h, allLabRequestIds, cancelled, sessions>>

\* Step 2 of callBackendCleanup: the POST /api/v1/labs/delete request of the
\* loop's current id returns; after the last id the errors are counted.
VmDone(out) ==
  /\ pc = "vm"
  /\ NotARequest
  /\ LET lab_request_id == allLabRequestIds[idx]
         responses == IF VmDeleted(out)
                        THEN Append(allVmDeleteResponses, lab_request_id)
                        ELSE allVmDeleteResponses
         errors == IF VmDeleted(out)
                     THEN allVmDeleteErrors
                     ELSE Append(allVmDeleteErrors, lab_request_id)
     IN /\ calls' = Append(calls, [op |-> "delete", id |-> lab_request_id,
                                   user_id |-> h.user_id, ok |-> VmDeleted(out)])
              /\ allVmDeleteResponses' = responses
        /\ allVmDeleteErrors' = errors
        /\ IF MoreVms(idx, errors)
             THEN /\ idx' = idx + 1
                  /\ UNCHANGED <<pc, verdict, result, raised, storage, alarm, last>>
             ELSE /\ idx' = idx
                  /\ IF AnyVmDeleteError(errors)
                       THEN /\ verdict' = "fail"
                            /\ CleanupFailed
                            /\ last' = last
                       ELSE /\ verdict' = "ok"
                            /\ pc' = "db"
                            /\ UNCHANGED <<result, raised, storage, alarm, last>>
  /\ UNCHANGED <<fired, now, env, worldVars, healthy, db, h, allLabRequestIds, cancelled, sessions>>

\* deleteFromDatabase: DELETE FROM labs_sessions WHERE user_id = ? returns.
DbDone(out) ==
  /\ pc = "db"
  /\ NotARequest
  /\ calls' = Append(calls, [op |-> "db_delete", id |-> "", user_id |-> h.user_id,
                            ok |-> out = "success"])
  /\ db' = IF out = "success" THEN DeleteByUser(h.user_id) ELSE db
  /\ IF DbDeleted(out)
       THEN /\ pc' = "clear"
            /\ UNCHANGED <<storage, alarm, result, raised, last>>
       ELSE /\ CleanupFailed
            /\ last' = last
  /\ UNCHANGED <<fired, now, env, worldVars, healthy, localVars, verdict, cancelled, sessions>>

\* Step 3 of alarm(): storage.deleteAll().
AlarmClear ==
  /\ pc = "clear"
  /\ NotARequest
  /\ calls' = Append(calls, [op |-> "clear", id |-> "", user_id |-> "", ok |-> TRUE])
  /\ storage' = EmptyStorage
  /\ result' = "cleaned"
  /\ pc' = "done"
  /\ UNCHANGED <<alarm, fired, now, env, worldVars, healthy, db, localVars, verdict,
                 raised, last, cancelled, sessions>>

\* Step 3 of alarm() when storage.deleteAll() rejects: the error is thrown
\* inside the try block and lands in the catch block.
AlarmClearFails ==
  /\ pc = "clear"
  /\ NotARequest
  /\ calls' = Append(calls, [op |-> "clear", id |-> "", user_id |-> "", ok |-> FALSE])
  /\ CleanupFailed
  /\ UNCHANGED <<fired, now, env, worldVars, healthy, db, localVars, verdict, last, cancelled, sessions>>

\* alarm() returns: its locals and the log of its requests are gone, a
\* summary of the attempt is kept.
AlarmReturn ==
  /\ pc = "done"
  /\ NotARequest
  /\ last' = IF result = "noop" THEN last ELSE AttemptSummary
  /\ pc' = "idle"
  /\ h' = NoLocals
  /\ allLabRequestIds' = <<>>
  /\ idx' = 0
  /\ allVmDeleteResponses' = <<>>
  /\ allVmDeleteErrors' = <<>>
  /\ calls' = <<>>
  /\ verdict' = "none"
  /\ result' = "none"
  /\ raised' = FALSE
  /\ UNCHANGED <<storage, alarm, fired, now, env, worldVars, healthy, db, cancelled, sessions>>

(***************************************************************************)
(* The actors of the other users: the same class on its own storage and    *)
(* its own alarm slot, each handler taken as one step                      *)
(***************************************************************************)
\* scheduleCleanup on the actor of u.
peerScheduleCleanup(u, lab_request_id, duration) ==
  /\ u # Self
  /\ actors[u] = NoActor
  /\ actors' = [actors EXCEPT ![u] =
       [storage |-> [k \in StorageKeys |->
                       CASE k = "user_id" -> u
                         [] k = "lab_request_id" -> lab_request_id
                         [] k = "worker_lab_request_ids" -> JSONStringify(<<>>)
                         [] k = "duration" -> duration
                         [] k = "created_at" -> ToISOString(now)],
        alarm |-> ExpirationMs(duration)]]
  /\ NotARequest
  /\ UNCHANGED <<actorVars, db, now, env, healthy, creating, scans, backend>>

\* cancelCleanup on the actor of u.
peerCancelCleanup(u) ==
  /\ u # Self
  /\ actors[u] # NoActor
  /\ actors' = [actors EXCEPT ![u] = NoActor]
  /\ NotARequest
  /\ UNCHANGED <<actorVars, db, now, env, healthy, creating, scans, backend>>

\* alarm() on the actor of u, from start to return: the backend cleanup
\* succeeds or not.
peerAlarm(u, ok) ==
  /\ u # Self
  /\ actors[u].alarm # NoAlarm
  /\ now >= actors[u].alarm
  /\ IF ok
       THEN /\ db' = DeleteByUser(actors[u].storage["user_id"])
            /\ actors' = [actors EXCEPT ![u] = NoActor]
       ELSE /\ db' = db
            /\ actors' = [actors EXCEPT ![u].alarm = now + retryDelayMs]
  /\ NotARequest
  /\ UNCHANGED <<actorVars, now, env, healthy, creating, scans, backend>>

(***************************************************************************)
(* The periodic scan: scheduled, cleanupExpiredSessions and                *)
(* callBackendCleanup of src/src/index.ts                                  *)
(***************************************************************************)
\* The orders in which a SELECT may return a set of rows.
Orderings(S) ==
  {seq \in [1..Cardinality(S) -> S] : \A i, j \in 1..Cardinality(S) : seq[i] = seq[j] => i = j}

\* allLabRequestIds of the scan's callBackendCleanup.
CronAllLabRequestIds(master_lab_request_id, worker_lab_request_ids) ==
  ArrayFromSet(<<master_lab_request_id>> \o worker_lab_request_ids)

\* The for loop of cleanupExpiredSessions turns to the next row of the
\* result and sends its delete-exposed-services request, or the run returns.
CronNextSession(sc) ==
  IF sc.results = <<>>
    THEN [sc EXCEPT !.pc = "return", !.session = NoRow]
    ELSE [sc EXCEPT !.pc = "services",
                    !.session = Head(sc.results),
                    !.results = Tail(sc.results),
                    !.ids = CronAllLabRequestIds(
                              Head(sc.results).lab_request_id,
                              WorkerLabRequestIds(Head(sc.results).worker_nodes)),
                    !.idx = 1,
                    !.errors = <<>>,
                    !.calls = <<>>,
                    !.verdict = "none"]

\* Mutant: an error in the cleanup of one session ends the run.
CronSessionFailed_endsRun(sc) ==
  [sc EXCEPT !.pc = "return", !.session = NoRow, !.results = <<>>,
             !.failed = @ \cup {sc.session.user_id}]

\* The catch block inside the for loop: the error is logged and the loop
\* goes on.
CronSessionFailed(sc) ==
  CronNextSession([sc EXCEPT !.failed = @ \cup {sc.session.user_id}])

\* The rows of the table whose duration has passed; created_at is not among
\* the columns modelled, so any rows may be the expired ones.
ExpiredSessions == SUBSET db \ {{}}

\* scheduled: a run of cleanupExpiredSessions starts, selects the expired
\* rows and turns to the first one.  Without the backend configuration
\* callBackendCleanup throws for every row before any request.
CronStart(r) ==
  /\ scans[r].pc = "off"
  /\ \E expired \in ExpiredSessions :
       \E results \in Orderings(expired) :
         LET sc == [NoScan EXCEPT !.results = results,
                                  !.selected = {row.user_id : row \in expired}]
         IN scans' = [scans EXCEPT ![r] =
                        IF NotConfigured
                          THEN [sc EXCEPT !.pc = "return", !.results = <<>>,
                                          !.failed = sc.selected]
                          ELSE CronNextSession(sc)]
  /\ NotARequest
  /\ UNCHANGED <<actorVars, db, now, env, healthy, creating, backend, actors>>

\* Step 1 of the scan's callBackendCleanup: the delete-exposed-services
\* request returns; every outcome is logged and dropped.
CronServicesDone(r, out) ==
  /\ scans[r].pc = "services"
  /\ scans' = [scans EXCEPT
       ![r].calls = Append(@, [op |-> "expose", id |-> scans[r].session.lab_request_id,
                               user_id |-> "", ok |-> ServicesDeleted(out)]),
       ![r].pc = "vm"]
  /\ NotARequest
  /\ UNCHANGED <<actorVars, db, now, env, healthy, creating, backend, actors>>

\* vmResponse.ok: the body of the answer is not read.
CronVmDeleted(out) == out \in {"200", "202", "200_badbody"}

\* Step 2 of the scan's callBackendCleanup: the delete-resource request of
\* the loop's current id returns; after the last id the errors are counted,
\* and without errors the DELETE statement for the user is sent.
CronVmDone(r, out) ==
  /\ scans[r].pc = "vm"
  /\ LET sc == scans[r]
         lab_request_id == sc.ids[sc.idx]
         errors == IF CronVmDeleted(out) THEN sc.errors ELSE Append(sc.errors, lab_request_id)
         logged == [sc EXCEPT !.calls = Append(@, [op |-> "delete", id |-> lab_request_id,
                                                   user_id |-> sc.session.user_id,
                                                   ok |-> CronVmDeleted(out)]),
                              !.errors = errors]
     IN scans' = [scans EXCEPT ![r] =
          IF sc.idx < Len(sc.ids)
            THEN [logged EXCEPT !.idx = @ + 1]
            ELSE IF Len(errors) > 0
                   THEN CronSessionFailed([logged EXCEPT !.verdict = "fail"])
                   ELSE [logged EXCEPT !.verdict = "ok", !.pc = "db"]]
  /\ NotARequest
  /\ UNCHANGED <<actorVars, db, now, env, healthy, creating, backend, actors>>

\* The DELETE statement of cleanupExpiredSessions returns; its result is not
\* looked at, an error it throws is caught like any error of the session.
CronDbDone(r, out) ==
  /\ scans[r].pc = "db"
  /\ db' = IF out = "success" THEN DeleteByUser(scans[r].session.user_id) ELSE db
  /\ scans' = [scans EXCEPT ![r] =
       IF out = "throw"
         THEN CronSessionFailed(scans[r])
         ELSE CronNextSession([scans[r] EXCEPT !.cleaned = @ \cup {scans[r].session.user_id}])]
  /\ NotARequest
  /\ UNCHANGED <<actorVars, now, env, healthy, creating, backend, actors>>

\* cleanupExpiredSessions returns: nothing of the run is kept.
CronReturn(r) ==
  /\ scans[r].pc = "return"
  /\ scans' = [scans EXCEPT ![r] = NoScan]
  /\ NotARequest
  /\ UNCHANGED <<actorVars, db, now, env, healthy, creating, backend, actors>>

(***************************************************************************)
(* Specification: requests and the alarm handler of one actor never        *)
(* overlap (every request waits for pc = "idle").                          *)
(***************************************************************************)
\* POST /schedule with every required field.
ScheduleRequest ==
  /\ pc = "idle"
  /\ sessions < MaxSessions
  /\ \E lab_request_id \in MasterIds, duration \in 1..MaxDuration, hasWorkers \in BOOLEAN :
       \E worker_lab_request_ids \in
            (IF hasWorkers THEN SeqsUpTo(WorkerIds, MaxWorkers) ELSE {<<>>}) :
         scheduleCleanup(Self, lab_request_id, hasWorkers, worker_lab_request_ids, duration)

\* POST /schedule with a required field missing or empty.
RejectedScheduleRequest ==
  /\ pc = "idle"
  /\ \E user_id \in {"", Self}, lab_request_id \in MasterIds \cup {""},
        duration \in 0..MaxDuration :
       /\ "" \in {user_id, lab_request_id} \/ duration = 0
       /\ scheduleCleanup(user_id, lab_request_id, FALSE, <<>>, duration)

\* POST /schedule with every required field, to an actor that may hold a
\* session already.
RescheduleRequest ==
  /\ pc = "idle"
  /\ sessions < MaxSessions + MaxReschedules
  /\ \E lab_request_id \in MasterIds, duration \in 1..MaxDuration, hasWorkers \in BOOLEAN :
       \E worker_lab_request_ids \in
            (IF hasWorkers THEN SeqsUpTo(WorkerIds, MaxWorkers) ELSE {<<>>}) :
         scheduleCleanup(Self, lab_request_id, hasWorkers, worker_lab_request_ids, duration)

Next ==
  \/ \E u \in Users : createLabSession(u)
  \/ \E u \in Users : deleteLabSession(u)
  \/ ScheduleRequest
  \/ RejectedScheduleRequest
  \/ scheduleCleanupUnreadable
  \/ cancelCleanup
  \/ Tick
  \/ AlarmDue
  \/ AlarmStart
  \/ \E out \in ServiceOutcomes : ServicesDone(out)
  \/ \E out \in VmOutcomes : VmDone(out)
  \/ \E out \in DbOutcomes : DbDone(out)
  \/ AlarmClear
  \/ AlarmReturn

Spec == Init /\ [][Next]_vars

\* The same actor in any deployment, configured or not.
SpecAnyEnv == InitAnyEnv /\ [][Next]_vars

\* The actor on a platform whose storage.deleteAll() may reject.
NextStorageFault ==
  \/ Next
  \/ AlarmClearFails

SpecStorageFault == Init /\ [][NextStorageFault]_vars

\* One session that is never cancelled, on a backend that is down and may
\* recover for good.  The platform delivers a due alarm, every request the
\* handler awaits returns, and time passes.
ScheduleOnce ==
  /\ pc = "idle"
  /\ sessions = 0
  /\ \E duration \in 1..MaxDuration, worker_lab_request_ids \in SeqsUpTo({"W1"}, 1) :
       scheduleCleanup(Self, "M", TRUE, worker_lab_request_ids, duration)

NextRetry ==
  \/ createLabSession(Self)
  \/ ScheduleOnce
  \/ BackendRecovers
  \/ WaitForAlarm
  \/ AlarmDue
  \/ AlarmStart
  \/ \E out \in ServiceOutcomes : ServicesDone(out)
  \/ \E out \in (IF healthy THEN {"200", "202"} ELSE VmOutcomes) : VmDone(out)
  \/ \E out \in (IF healthy THEN {"success"} ELSE DbOutcomes) : DbDone(out)
  \/ AlarmClear
  \/ AlarmReturn

AlarmProgress ==
  \/ WaitForAlarm
  \/ AlarmDue
  \/ AlarmStart
  \/ \E out \in ServiceOutcomes : ServicesDone(out)
  \/ \E out \in (IF healthy THEN {"200", "202"} ELSE VmOutcomes) : VmDone(out)
  \/ \E out \in (IF healthy THEN {"success"} ELSE DbOutcomes) : DbDone(out)
  \/ AlarmClear
  \/ AlarmReturn

SpecRetry == Init /\ [][NextRetry]_vars /\ WF_vars(AlarmProgress)

\* The actor under repeated schedule requests, with a backend whose exposed
\* services and store always answer and whose VM deletion answers 200 or 500.
NextRequests ==
  \/ RescheduleRequest
  \/ RejectedScheduleRequest
  \/ scheduleCleanupUnreadable
  \/ cancelCleanup
  \/ Tick
  \/ AlarmDue
  \/ AlarmStart
  \/ ServicesDone("200")
  \/ \E out \in {"200", "500"} : VmDone(out)
  \/ DbDone("success")
  \/ AlarmClear
  \/ AlarmReturn

SpecRequests == Init /\ [][NextRequests]_vars

\* The create and update handlers on the table: create requests may overlap
\* each other and update requests between their SELECT and their INSERT.
NextStore ==
  \/ \E body \in CreateBodies : createLabSessionSelect(body)
  \/ \E c \in creating : createLabSessionInsert(c)
  \/ \E userId \in Users, body \in UpdateBodies : updateLabSession(userId, body)

SpecStore == Init /\ [][NextStore]_vars

\* One session whose record is updated while its actor waits for the alarm
\* or cleans up.
NextUpdate ==
  \/ createLabSession(Self)
  \/ ScheduleOnce
  \/ \E body \in UpdateBodies : updateLabSession(Self, body)
  \/ Tick
  \/ AlarmDue
  \/ AlarmStart
  \/ ServicesDone("200")
  \/ \E out \in {"200", "500"} : VmDone(out)
  \/ DbDone("success")
  \/ AlarmClear
  \/ AlarmReturn

SpecUpdate == Init /\ [][NextUpdate]_vars

\* The actor of Self next to the actors and the records of the other users.
NextPeers ==
  \/ \E u \in Users : createLabSession(u)
  \/ ScheduleOnce
  \/ cancelCleanup
  \/ \E u \in Users \ {Self} : peerScheduleCleanup(u, "M", 1)
  \/ \E u \in Users \ {Self} : peerCancelCleanup(u)
  \/ \E u \in Users \ {Self}, ok \in BOOLEAN : peerAlarm(u, ok)
  \/ Tick
  \/ AlarmDue
  \/ AlarmStart
  \/ ServicesDone("200")
  \/ \E out \in {"200", "500"} : VmDone(out)
  \/ \E out \in DbOutcomes : DbDone(out)
  \/ AlarmClear
  \/ AlarmReturn

SpecPeers == Init /\ [][NextPeers]_vars

\* Sessions with one worker node.
WorkerNodeAdded ==
  [worker_nodes |-> <<"W2">>, duration |-> UndefinedNumber, lab_request_id |-> Undefined]

\* The periodic scan, one run at a time, on a table of sessions with and
\* without a worker node.
NextCron ==
  \/ \E u \in Users : createLabSession(u)
  \/ \E u \in Users : updateLabSession(u, WorkerNodeAdded)
  \/ CronStart("scan1")
  \/ \E out \in {"200", "500"} : CronServicesDone("scan1", out)
  \/ \E out \in VmOutcomes : CronVmDone("scan1", out)
  \/ \E out \in DbOutcomes : CronDbDone("scan1", out)
  \/ CronReturn("scan1")

SpecCron == Init /\ [][NextCron]_vars

\* The periodic scan when the cron trigger may start a run while another
\* run is under way: nothing in scheduled or cleanupExpiredSessions waits
\* for an earlier run.
NextCronOverlap ==
  \/ \E u \in Users : createLabSession(u)
  \/ \E r \in ScanIds : CronStart(r)
  \/ \E r \in ScanIds : CronServicesDone(r, "200")
  \/ \E r \in ScanIds : \E out \in {"200", "500"} : CronVmDone(r, out)
  \/ \E r \in ScanIds : CronDbDone(r, "success")
  \/ \E r \in ScanIds : CronReturn(r)

SpecCronOverlap == Init /\ [][NextCronOverlap]_vars

\* The answers of a backend that answers each request in a fixed way: one
\* for the delete-exposed-services request, one per id for delete-resource.
AnswerPatterns ==
  [services : {"200", "500"}, vm : [WorkerIds -> {"200", "200_badbody", "500"}]]

\* A session with primary id "M" and any list of worker ids, created and
\* scheduled at time 0 for one minute, whose alarm has just been taken and
\* whose record has expired, on a backend that answers in a fixed way.
InitCompare ==
  /\ \E worker_lab_request_ids \in SeqsUpTo(WorkerIds, MaxWorkers) :
       /\ storage = [k \in StorageKeys |->
                       CASE k = "user_id" -> Self
                         [] k = "lab_request_id" -> "M"
                         [] k = "worker_lab_request_ids" -> JSONStringify(worker_lab_request_ids)
                         [] k = "duration" -> 1
                         [] k = "created_at" -> ToISOString(0)]
       /\ db = {Row(Uuid(1), Self, "M", JSONStringify(worker_lab_request_ids), 1)}
  /\ backend \in AnswerPatterns
  /\ alarm = NoAlarm
  /\ fired = TRUE
  /\ now = MsPerMinute
  /\ env = [BACKEND_API_URL |-> TRUE, BACKEND_API_TOKEN |-> TRUE]
  /\ pc = "idle"
  /\ h = NoLocals
  /\ allLabRequestIds = <<>>
  /\ idx = 0
  /\ allVmDeleteResponses = <<>>
  /\ allVmDeleteErrors = <<>>
  /\ calls = <<>>
  /\ verdict = "none"
  /\ result = "none"
  /\ raised = FALSE
  /\ last = NoAttempt
  /\ sessions = 1
  /\ cancelled = FALSE
  /\ healthy = FALSE
  /\ resp = NoResponse
  /\ replaced = NoAlarm
  /\ creating = {}
  /\ scans = [r \in ScanIds |-> NoScan]
  /\ actors = [u \in Users \ {Self} |-> NoActor]

\* The callBackendCleanup of the actor, then the callBackendCleanup of a
\* scan run, for the same session against the same answers.
NextCompare ==
  \/ AlarmStart
  \/ ServicesDone(backend.services)
  \/ pc = "vm" /\ VmDone(backend.vm[allLabRequestIds[idx]])
  \/ verdict # "none" /\ CronStart("scan1")
  \/ CronServicesDone("scan1", backend.services)
  \/ /\ scans["scan1"].pc = "vm"
     /\ CronVmDone("scan1", backend.vm[scans["scan1"].ids[scans["scan1"].idx]])

SpecCompare == InitCompare /\ [][NextCompare]_vars

\* One session whose cancel request may be delivered between two awaits of
\* its running alarm handler.
NextOverlap ==
  \/ createLabSession(Self)
  \/ ScheduleOnce
  \/ cancelCleanup
  \/ cancelCleanupWhileAwaiting
  \/ Tick
  \/ AlarmDue
  \/ AlarmStart
  \/ \E out \in ServiceOutcomes : ServicesDone(out)
  \/ \E out \in VmOutcomes : VmDone(out)
  \/ \E out \in DbOutcomes : DbDone(out)
  \/ AlarmClear
  \/ AlarmReturn

SpecOverlap == Init /\ [][NextOverlap]_vars

\* The durations a schedule request may carry: `duration: number`, of either
\* sign.
RequestDurations == (0 - MaxDuration)..MaxDuration

\* POST /schedule with a user id, a primary id and any duration.
AnyDurationRequest ==
  /\ pc = "idle"
  /\ sessions < MaxSessions
  /\ \E duration \in RequestDurations, worker_lab_request_ids \in SeqsUpTo({"W1"}, 1) :
       scheduleCleanup(Self, "M", TRUE, worker_lab_request_ids, duration)

\* The actor under schedule requests with durations of either sign.
NextDurations ==
  \/ createLabSession(Self)
  \/ AnyDurationRequest
  \/ cancelCleanup
  \/ Tick
  \/ AlarmDue
  \/ AlarmStart
  \/ ServicesDone("200")
  \/ \E out \in {"200", "500"} : VmDone(out)
  \/ DbDone("success")
  \/ AlarmClear
  \/ AlarmReturn

SpecDurations == Init /\ [][NextDurations]_vars

\* The create request of a user's next session, on a new master VM.
LaterSessionBody ==
  [id |-> Undefined, user_id |-> Self, lab_request_id |-> "M2",
   worker_nodes |-> UndefinedList, duration |-> 1, validation |-> 1]

\* POST /schedule for that session, handled while alarm() awaits a response.
LaterScheduleRequest ==
  /\ sessions < MaxSessions + MaxReschedules
  /\ \E duration \in 1..MaxDuration :
       scheduleCleanupWhileAwaiting(Self, LaterSessionBody.lab_request_id, FALSE, <<>>, duration)

\* A session whose alarm handler is awaiting a response while the user
\* deletes the session, creates the next one and has it scheduled.
NextLater ==
  \/ createLabSession(Self)
  \/ ScheduleOnce
  \/ deleteLabSessionWhileAwaiting(Self)
  \/ createLabSessionSelect(LaterSessionBody)
  \/ \E c \in creating : createLabSessionInsert(c)
  \/ LaterScheduleRequest
  \/ Tick
  \/ AlarmDue
  \/ AlarmStart
  \/ ServicesDone("200")
  \/ \E out \in {"200", "500"} : VmDone(out)
  \/ DbDone("success")
  \/ AlarmClear
  \/ AlarmReturn

SpecLater == Init /\ [][NextLater]_vars

\* POST /schedule with every required field, one of whose storage
\* operations rejects.
FailingScheduleRequest ==
  \E duration \in 1..MaxDuration, worker_lab_request_ids \in SeqsUpTo({"W1"}, 1),
     k \in 1..Len(ScheduleOps) :
    scheduleCleanupRejects(Self, "M", TRUE, worker_lab_request_ids, duration, k)

\* The actor on a platform whose storage operations may reject inside the
\* schedule and cancel requests.
NextRequestFault ==
  \/ createLabSession(Self)
  \/ ScheduleOnce
  \/ RejectedScheduleRequest
  \/ scheduleCleanupUnreadable
  \/ FailingScheduleRequest
  \/ cancelCleanup
  \/ \E k \in 1..Len(CancelOps) : cancelCleanupRejects(k)
  \/ Tick
  \/ AlarmDue
  \/ AlarmStart
  \/ ServicesDone("200")
  \/ \E out \in {"200", "500"} : VmDone(out)
  \/ DbDone("success")
  \/ AlarmClear
  \/ AlarmReturn

SpecRequestFault == Init /\ [][NextRequestFault]_vars

(***************************************************************************)
(* What the properties speak about                                         *)
(***************************************************************************)
ExposeCalls == CallsOf(calls, "expose")
DeleteCalls == CallsOf(calls, "delete")
DbCalls == CallsOf(calls, "db_delete")

\* The resources of the session the handler read: the primary id and the
\* secondary ids, as a set.
ResourceSet == {h.lab_request_id} \cup Range(h.worker_lab_request_ids)

DeletedIds == {calls[i].id : i \in DeleteCalls}
TimesDeleted(id) == Cardinality({i \in DeleteCalls : calls[i].id = id})

HasFailedDelete == \E i \in DeleteCalls : ~calls[i].ok
DbDeleteFailed == \E i \in DbCalls : ~calls[i].ok
DbDeleteSucceeded == \E i \in DbCalls : calls[i].ok

\* The actor's stored fields are the ones the handler read when it started.
StorageMirrorsLocals ==
  /\ DOMAIN storage = StorageKeys
  /\ storage["user_id"] = h.user_id
  /\ storage["lab_request_id"] = h.lab_request_id
  /\ JSONParse(storage["worker_lab_request_ids"]) = h.worker_lab_request_ids
  /\ storage["duration"] = h.duration
  /\ storage["created_at"] = h.created_at

(***************************************************************************)
(* Properties                                                              *)
(***************************************************************************)

\* C1: once cancel() has completed, an alarm fire on the actor is a no-op:
\* the handler ends at once, having issued no backend request and no store
\* deletion, the store and the (empty) actor state are unchanged and no
\* alarm is registered.
C1_CancelTerminal ==
  [][(cancelled /\ fired /\ pc = "idle" /\ pc' # "idle") =>
       /\ pc' = "done"
       /\ result' = "noop"
       /\ calls' = <<>>
       /\ db' = db
       /\ storage' = EmptyStorage
       /\ alarm' = NoAlarm]_vars

\* C1 witness: the alarm of a retry (its first fire, at one minute, failed)
\* was taken by the platform, cancel() completed, and the handler ran.
C1_Witness ==
  /\ cancelled
  /\ pc = "done"
  /\ result = "noop"
  /\ now >= MsPerMinute + retryDelayMs

\* C2: an alarm fire in which a resource deletion or the store deletion
\* failed ends with an alarm at now + 5 minutes, every stored field as the
\* handler read it, and no exception raised.
C2_RetryOnFailure ==
  (pc = "done" /\ (HasFailedDelete \/ DbDeleteFailed)) =>
    /\ alarm = now + 5 * 60 * 1000
    /\ StorageMirrorsLocals
    /\ ~raised

\* C2 witness: a fire of a multi-resource session ended after a failed
\* resource deletion.
C2_Witness ==
  /\ pc = "done"
  /\ HasFailedDelete
  /\ Cardinality(ResourceSet) > 1

C4_FullAttempt ==
  verdict # "none" => \A id \in ResourceSet : TimesDeleted(id) = 1

\* C4 witness: an orchestration call in which a deletion failed and a later
\* one was issued and succeeded.
C4_Witness ==
  /\ verdict = "fail"
  /\ \E i, j \in DeleteCalls : i < j /\ ~calls[i].ok /\ calls[j].ok

\* C5: the delete-resource requests of an orchestration call are for
\* pairwise distinct ids, and these ids are the primary and secondary ids.
C5_Dedup ==
  verdict # "none" =>
    /\ \A i, j \in DeleteCalls : i # j => calls[i].id # calls[j].id
    /\ DeletedIds = ResourceSet

\* C5 witness: an orchestration call for secondaries that repeat an id and
\* contain the primary id.
C5_Witness ==
  /\ verdict # "none"
  /\ h.lab_request_id \in Range(h.worker_lab_request_ids)
  /\ Len(h.worker_lab_request_ids) > Cardinality(Range(h.worker_lab_request_ids))

\* C6: the verdict of an orchestration call is ok exactly when every
\* delete-resource request of the call succeeded; a failed verdict makes
\* the fire a failure.
C6_Verdict ==
  verdict # "none" =>
    /\ verdict = "ok" <=> (\A i \in DeleteCalls : calls[i].ok)
    /\ verdict = "fail" => (pc = "done" /\ result = "retry")

\* C6 witness: a failed verdict although the last deletion (and not every
\* deletion) succeeded.
C6_Witness ==
  /\ verdict = "fail"
  /\ \E i, j \in DeleteCalls : i < j /\ ~calls[i].ok /\ calls[j].ok /\ j = Len(calls)

\* C7: a fire that reaches the backend issues one delete-exposed-services
\* request, its first request, for the primary id; whatever its outcome the
\* fire goes on to one delete-resource request per id, and a failed verdict
\* always has a failed resource deletion behind it.
C7_ServicesBestEffort ==
  /\ calls # <<>> => (ExposeCalls = {1} /\ calls[1].id = h.lab_request_id)
  /\ (pc = "done" /\ calls # <<>>) =>
       (verdict # "none" /\ Cardinality(DeleteCalls) = Len(allLabRequestIds))
  /\ verdict = "fail" => HasFailedDelete

\* C7 witness: the service deletion failed, three resources were deleted
\* and the verdict is ok.
C7_Witness ==
  /\ verdict = "ok"
  /\ ~calls[1].ok
  /\ Cardinality(DeleteCalls) = 3

\* C8: the attempt after one in which some deletions failed issues a
\* delete-resource request for every resource of the session.
C8_RetryAll ==
  (verdict # "none" /\ last.failed # {}) =>
    \A id \in ResourceSet : \E i \in DeleteCalls : calls[i].id = id

\* C8 witness: a retry issued a request for a resource whose deletion had
\* succeeded in the attempt before, which failed for another resource.
C8_Witness ==
  /\ verdict # "none"
  /\ last.failed # {}
  /\ \E i \in DeleteCalls : calls[i].id \notin last.failed

\* C9: no step of a fire that has a failed resource deletion changes the
\* store, and a record leaves the store only by a request (the handler is
\* idle) or by the store deletion of a fire whose resource deletions all
\* succeeded.
C9_RecordKept ==
  [][/\ (pc # "idle" /\ HasFailedDelete') => db' = db
     /\ \A u \in Users :
          (HasRow(u) /\ ~HasRow(u)') =>
             \/ pc = "idle"
             \/ (pc = "db" /\ u = h.user_id /\ verdict = "ok" /\ ~HasFailedDelete)]_vars

\* C9 witness: a second attempt failed and the user's record is still there.
C9_Witness ==
  /\ pc = "done"
  /\ HasFailedDelete
  /\ last.n >= 1
  /\ HasRow(h.user_id)

\* C10: a fire whose store deletion failed ends with the stored fields kept
\* and an alarm at now + 5 minutes; in the fire after it the store deletion
\* is tried only after the delete-exposed-services request and a
\* delete-resource request for every resource.
C10_StoreFailureRetriesAll ==
  /\ (pc = "done" /\ DbDeleteFailed) =>
       (StorageMirrorsLocals /\ alarm = now + 5 * 60 * 1000)
  /\ (last.db = "fail" /\ DbCalls # {}) =>
       \A d \in DbCalls :
         /\ \E e \in ExposeCalls : e < d
         /\ \A id \in ResourceSet : \E i \in DeleteCalls : i < d /\ calls[i].id = id

\* C10 witness: the store deletion of the fire before failed, and this
\* fire of a multi-resource session has reached its store deletion.
C10_Witness ==
  /\ last.db = "fail"
  /\ DbCalls # {}
  /\ Cardinality(ResourceSet) > 1

\* C11: in a session whose alarm fires were one or more failed
\* orchestrations followed by a fire that succeeded, one store deletion and
\* one clear of the actor state were made over all the fires, and the actor
\* is left without state and without alarm.
C11_RetryIdempotence ==
  (pc = "idle" /\ last.db = "ok" /\ last.n >= 2 /\ last.orchFailed = last.n - 1) =>
    /\ last.dbCalls = 1
    /\ last.clears = 1
    /\ storage = EmptyStorage
    /\ alarm = NoAlarm

\* C11 witness: two failed orchestrations, then a fire that succeeded.
C11_Witness ==
  /\ pc = "idle"
  /\ last.db = "ok"
  /\ last.n = 3
  /\ last.orchFailed = 2

\* The deployment lacks the backend URL or the backend token.
SecretUnset == \E k \in {"BACKEND_API_URL", "BACKEND_API_TOKEN"} : ~env[k]

\* C12 as stated: with the backend URL or token not configured, a fire that
\* found session data ends without any request and without a retry alarm.
C12_Original ==
  (SecretUnset /\ pc = "done" /\ result # "noop") =>
    /\ calls = <<>>
    /\ alarm = NoAlarm

\* C12 amended: with the backend URL or token not configured no request is
\* ever issued; a fire that found session data ends like any failed fire,
\* with a retry alarm at now + 5 minutes, the stored fields kept, the store
\* untouched and no exception raised.
C12_ConfigErrorRetried ==
  /\ SecretUnset => calls = <<>>
  /\ (SecretUnset /\ pc = "done" /\ result # "noop") =>
       /\ result = "retry"
       /\ alarm = now + 5 * 60 * 1000
       /\ StorageMirrorsLocals
       /\ ~raised

\* C12 witness: the token is missing and the retry of a fire has ended.
C12_Witness ==
  /\ env.BACKEND_API_URL
  /\ ~env.BACKEND_API_TOKEN
  /\ pc = "done"
  /\ result = "retry"
  /\ last.n >= 1

\* The HTTP status of a fetch outcome is 2xx.
Is2xx(out) == out \in {"200", "202", "200_badbody"}

\* C13 as stated: a delete-resource request counts as a success for its
\* resource exactly when the backend answered with a 2xx status, whatever
\* the body.
C13_Original ==
  [][\A out \in VmOutcomes :
       VmDone(out) => (calls'[Len(calls')].ok <=> Is2xx(out))]_vars

\* The step was a schedule request that succeeded.
Scheduled == resp.op = "schedule" /\ resp.success

\* C14: a successful schedule request leaves every field of the actor state
\* stored, with a duration > 0 and the call time, and one pending alarm, at
\* call time + duration * 60 s, whatever alarm or queued alarm invocation
\* there was before; the expiration instant it returns is the alarm instant.
C14_ScheduleSetsAlarm ==
  Scheduled =>
    /\ DOMAIN storage = StorageKeys
    /\ storage["user_id"] = resp.user_id
    /\ storage["duration"] > 0
    /\ DateParse(storage["created_at"]) = now
    /\ alarm = DateParse(storage["created_at"]) + storage["duration"] * 60 * 1000
    /\ ~fired
    /\ DateParse(resp.expires_at) = alarm

\* C14 witness: a successful schedule request found an alarm pending for
\* another instant.
C14_Witness ==
  /\ Scheduled
  /\ replaced # NoAlarm
  /\ replaced # alarm

\* C15 as stated: no schedule request is accepted with one of its four
\* inputs missing or empty, the secondary resource ids included.
C15_Original ==
  Scheduled =>
    /\ storage["user_id"] # ""
    /\ storage["lab_request_id"] # ""
    /\ storage["duration"] # 0
    /\ JSONParse(storage["worker_lab_request_ids"]) # <<>>

\* C15 amended: no schedule request is accepted with its user id, primary
\* resource id or duration missing or empty (a zero duration is empty), and
\* a schedule request that is not accepted answers with an error and
\* changes no stored field, no alarm and no queued alarm invocation.
C15_ValidationRejects ==
  [][resp'.op = "schedule" =>
       IF resp'.success
         THEN /\ storage'["user_id"] # ""
              /\ storage'["lab_request_id"] # ""
              /\ storage'["duration"] # 0
         ELSE /\ resp'.status \in {400, 500}
              /\ storage' = storage
              /\ alarm' = alarm
              /\ fired' = fired]_vars

\* C15 witness: a schedule request was rejected as invalid by an actor that
\* holds a session waiting for its retry alarm.
C15_Witness ==
  /\ resp.op = "schedule"
  /\ resp.status = 400
  /\ storage # EmptyStorage
  /\ alarm # NoAlarm
  /\ last.n >= 1

\* C16: in every state of the actor a cancel request succeeds, leaves no
\* alarm and no stored field, and returns the user id that was stored, or
\* none when nothing was stored.
C16_CancelClears ==
  [][resp'.op = "cancel" =>
       /\ resp'.success
       /\ alarm' = NoAlarm
       /\ storage' = EmptyStorage
       /\ resp'.user_id = (IF storage = EmptyStorage THEN "" ELSE storage["user_id"])]_vars

\* C16 witness: a cancel request returned the user id of a session whose
\* first fire had failed.
C16_Witness ==
  /\ resp.op = "cancel"
  /\ resp.user_id = Self
  /\ now >= MsPerMinute + retryDelayMs

\* C17: an alarm fire that finds no stored field ends at once: it issues no
\* backend request and no store deletion, registers no alarm, raises
\* nothing, and the actor still has no stored field when it returns.
C17_AbsentStateNoop ==
  [][/\ (pc = "idle" /\ pc' # "idle" /\ storage = EmptyStorage) =>
          /\ pc' = "done"
          /\ result' = "noop"
          /\ calls' = <<>>
          /\ ~raised'
          /\ <<db, alarm, storage>>' = <<db, NoAlarm, EmptyStorage>>
     /\ (pc = "done" /\ result = "noop") =>
          /\ pc' = "idle"
          /\ <<db, alarm, storage>>' = <<db, NoAlarm, EmptyStorage>>]_vars

\* C17 witness: a fire found no stored field while the user's store record
\* exists, and has ended.
C17_Witness ==
  /\ pc = "done"
  /\ result = "noop"
  /\ storage = EmptyStorage
  /\ HasRow(Self)

\* C18 as stated: a fire whose resource deletions and store deletion
\* succeeded ends without a pending alarm, also when the clear of the actor
\* state failed, and no request is issued for the session after it.
C18_Original ==
  /\ (pc = "done" /\ verdict = "ok" /\ DbDeleteSucceeded) => alarm = NoAlarm
  /\ last.db = "ok" => calls = <<>>

\* C19: every failed fire of a session, the n-th for every n, ends with the
\* stored fields kept and an alarm exactly 5 minutes later; so the n-th fire
\* after the first runs exactly n times 5 minutes after the expiration.
C19_FixedRetryInterval ==
  /\ (pc = "done" /\ result = "retry") =>
       (alarm = now + 5 * 60 * 1000 /\ StorageMirrorsLocals)
  /\ (pc # "idle" /\ h.user_id # "") =>
       now = DateParse(h.created_at) + h.duration * 60 * 1000 + last.n * 5 * 60 * 1000

\* C19 witness: the fourth consecutive failed fire of a session has ended.
C19_Witness ==
  /\ pc = "done"
  /\ result = "retry"
  /\ last.n = 3
  /\ last.orchFailed + last.dbCalls = 3

\* The session's cleanup is complete.
CleanedUp == storage = EmptyStorage /\ alarm = NoAlarm /\ ~HasRow(Self)

\* C20: once a session is scheduled and the backend and the store have
\* recovered for good, the session is eventually cleaned up: no store
\* record, no stored field, no pending alarm.
C20_EventuallyCleaned ==
  (healthy /\ storage # EmptyStorage) ~> CleanedUp

\* C20 witness: the session is cleaned up after three failed fires.
C20_Witness ==
  /\ CleanedUp
  /\ healthy
  /\ pc = "idle"
  /\ last.n = 4
  /\ last.db = "ok"

\* The step sends a backend request: the handler comes to wait for the
\* delete-exposed-services response or for the next delete-resource response.
RequestIssued == pc' \in {"services", "vm"} /\ <<pc, idx>>' # <<pc, idx>>

\* C21 as stated: once cancel() has returned for a session, no
\* delete-exposed-services and no delete-resource request is issued for it,
\* also when cancel() was handled while an alarm handler of the session was
\* waiting for a backend response.
C21_Original ==
  [][cancelled => ~RequestIssued]_vars

\* C22 as stated: when cancel() was handled while an alarm handler of the
\* actor was running and both have finished, the actor holds no stored field
\* and no pending alarm, and no store deletion has failed.
C22_Original ==
  (cancelled /\ pc = "idle" /\ last.n >= 1) =>
    /\ storage = EmptyStorage
    /\ alarm = NoAlarm
    /\ last.db # "fail"

\* The positions of the secondary ids that get a request of their own: not
\* the primary id, and not seen earlier in the list.
FirstOccurrences ==
  {k \in 1..Len(h.worker_lab_request_ids) :
     /\ h.worker_lab_request_ids[k] # h.lab_request_id
     /\ \A j \in 1..(k - 1) : h.worker_lab_request_ids[j] # h.worker_lab_request_ids[k]}

\* C27: the backend requests of one cleanup attempt come in a fixed order:
\* first the delete-exposed-services request, second the delete-resource
\* request for the primary id, then the delete-resource requests for the
\* secondary ids in the order of their first occurrence, and nothing else.
C27_RequestOrder ==
  /\ Len(calls) >= 1 => (calls[1].op = "expose" /\ calls[1].id = h.lab_request_id)
  /\ Len(calls) >= 2 => (calls[2].op = "delete" /\ calls[2].id = h.lab_request_id)
  /\ \A k \in FirstOccurrences :
       LET p == 3 + Cardinality({j \in FirstOccurrences : j < k})
       IN Len(calls) >= p =>
            (calls[p].op = "delete" /\ calls[p].id = h.worker_lab_request_ids[k])
  /\ \A i \in 1..Len(calls) :
       i > 2 + Cardinality(FirstOccurrences) => calls[i].op \notin {"expose", "delete"}
  /\ verdict # "none" => Len(calls) >= 2 + Cardinality(FirstOccurrences)

\* C27 witness: an attempt whose secondary ids were given as W2, W1 has
\* issued all its requests.
C27_Witness ==
  /\ verdict # "none"
  /\ h.worker_lab_request_ids = <<"W2", "W1">>
  /\ calls[4].id = "W1"

\* C23: the table never holds two rows of one user, however create requests
\* overlap; a create request for a user who has a row is answered with an
\* error and leaves the table as it is: 409 when its SELECT finds the row
\* (400 if the request lacks a required field), 500 when its INSERT does.
C23_OneSessionPerUser ==
  [][/\ \A u \in Users : Cardinality(RowsOf(u)') <= 1
     /\ (resp'.op = "create" /\ HasRow(resp'.user_id)) =>
          /\ db' = db
          /\ resp'.status \in (IF creating' = creating THEN {400, 409} ELSE {500})
     /\ \A body \in CreateBodies :
          (createLabSessionSelect(body) /\ HasRow(body.user_id) /\ ~MissingCreateFields(body)) =>
             resp'.status = 409]_vars

\* C23 witness: two create requests of one user overlapped, and the INSERT
\* of the second one failed.
C23_Witness ==
  /\ resp.op = "create"
  /\ resp.status = 500
  /\ Cardinality(RowsOf(resp.user_id)) = 1

\* The resource ids in the rows of a user: the primary id and the set of
\* worker ids.
ResourceIdsOf(u) ==
  {<<r.lab_request_id, Range(WorkerLabRequestIds(r.worker_nodes))>> : r \in RowsOf(u)}

\* C25 as stated: no update request changes the primary resource id or the
\* set of worker resource ids in a row.
C25_Original ==
  [][resp'.op = "update" => \A u \in Users : ResourceIdsOf(u)' = ResourceIdsOf(u)]_vars

\* C25 amended: no update request changes the primary resource id, the
\* session id or the user of a row, or any row of another user; an update
\* that carries worker_nodes replaces the worker resource ids of the user's
\* row by those of the request, and any other update leaves them as they are.
C25_UpdateKeepsPrimary ==
  [][\A userId \in Users, body \in UpdateBodies :
       updateLabSession(userId, body) =>
         /\ {<<r.id, r.user_id, r.lab_request_id>> : r \in db}' =
              {<<r.id, r.user_id, r.lab_request_id>> : r \in db}
         /\ \A u \in Users \ {userId} : RowsOf(u)' = RowsOf(u)
         /\ IF resp'.success /\ body.worker_nodes # UndefinedList
              THEN \A r \in RowsOf(userId)' :
                     WorkerLabRequestIds(r.worker_nodes) = body.worker_nodes
              ELSE ResourceIdsOf(userId)' = ResourceIdsOf(userId)]_vars

\* C25 witness: an update request has put the worker id W2 into a row.
C25_Witness ==
  /\ resp.op = "update"
  /\ resp.success
  /\ \E r \in RowsOf(resp.user_id) : WorkerLabRequestIds(r.worker_nodes) = <<"W2">>

\* C24: an update request, also one that changes the duration, changes
\* nothing of the actor: its stored fields, its stored duration among them,
\* its pending alarm and a queued alarm invocation stay as they are; so the
\* first alarm of a session is taken when the clock is at the call time plus
\* the duration given to schedule, whatever duration the record has by then.
C24_UpdateKeepsTimer ==
  [][/\ resp'.op = "update" => <<storage, alarm, fired>>' = <<storage, alarm, fired>>
     /\ (~fired /\ fired' /\ last.n = 0) =>
          now = DateParse(storage["created_at"]) + storage["duration"] * 60 * 1000]_vars

\* C24 witness: the alarm of a session was taken after the duration of the
\* session's record had been changed.
C24_Witness ==
  /\ fired
  /\ last.n = 0
  /\ \E r \in RowsOf(Self) : r.duration # storage["duration"]

\* C26: a schedule request, a cancel request and every step of an alarm
\* fire on the actor of one user, its store deletion included, leave the
\* stored fields and the alarm of every other user's actor and the records
\* of every other user as they are; and so do the steps of the other actors
\* for this one.
C26_ActorsIndependent ==
  [][/\ (actorVars' # actorVars \/ resp'.op \in {"schedule", "cancel"}) =>
          /\ actors' = actors
          /\ \A u \in Users \ {Self} : RowsOf(u)' = RowsOf(u)
     /\ actors' # actors =>
          /\ <<storage, alarm, fired, pc>>' = <<storage, alarm, fired, pc>>
          /\ \A u \in Users :
               (u = Self \/ actors'[u] = actors[u]) => RowsOf(u)' = RowsOf(u)]_vars

\* C26 witness: the alarm fire of one user has deleted that user's record
\* while another user has a record and an actor with a pending alarm.
C26_Witness ==
  /\ pc = "clear"
  /\ \E u \in Users \ {Self} : HasRow(u) /\ actors[u].alarm # NoAlarm

\* The backend requests of a log, without their outcomes.
Requests(log) == [i \in 1..Len(log) |-> <<log[i].op, log[i].id, log[i].user_id>>]

\* C28 as stated: for the same session and the same answers of the backend,
\* the orchestrator of the actor and the one of the periodic scan issue the
\* same requests in the same order and end with the same verdict.
C28_Original ==
  (verdict # "none" /\ scans["scan1"].verdict # "none") =>
    /\ Requests(calls) = Requests(scans["scan1"].calls)
    /\ verdict = scans["scan1"].verdict

\* C29 as stated: no two runs of the periodic scan are at a session of the
\* same user at the same time.
C29_Original ==
  \A r1, r2 \in ScanIds :
    (r1 # r2 /\ scans[r1].session # NoRow /\ scans[r2].session # NoRow) =>
      scans[r1].session.user_id # scans[r2].session.user_id

\* The users of the sessions a scan run has still to come to.
Pending(sc) ==
  {sc.results[i].user_id : i \in 1..Len(sc.results)} \cup
  (IF sc.session = NoRow THEN {} ELSE {sc.session.user_id})

\* C30: a scan run comes to every session it selected, whatever failed
\* before: when it returns, each selected session was cleaned up or has
\* failed.  A record leaves the table in a run only by the DELETE for a
\* session whose delete-resource requests, one per id, all succeeded; the
\* step in which a session fails leaves its record as it is, so the next
\* run selects it again.
C30_ScanProcessesAll ==
  [][LET sc == scans["scan1"]
         sc1 == scans'["scan1"]
     IN /\ sc1.pc # "off" => sc1.selected = sc1.cleaned \cup sc1.failed \cup Pending(sc1)
        /\ sc1.pc = "return" => Pending(sc1) = {}
        /\ \A u \in Users :
             (HasRow(u) /\ ~HasRow(u)') =>
                /\ sc.pc = "db"
                /\ sc.session.user_id = u
                /\ \A i \in 1..Len(sc.calls) : sc.calls[i].op = "delete" => sc.calls[i].ok
                /\ {sc.calls[i].id : i \in CallsOf(sc.calls, "delete")} =
                     {sc.session.lab_request_id} \cup
                     Range(WorkerLabRequestIds(sc.session.worker_nodes))
        /\ \A u \in sc1.failed \ sc.failed :
             HasRow(u)' /\ RowsOf(u)' = RowsOf(u)]_vars

\* C30 witness: a run has failed on one session and is about to delete the
\* record of the session after it, while the record of the first is there.
C30_Witness ==
  LET sc == scans["scan1"]
  IN /\ sc.pc = "db"
     /\ \E u \in sc.failed : HasRow(u) /\ u # sc.session.user_id

\* C38 as stated: of two create requests of one user that both ran their
\* existence check before either inserted, the one that inserts second
\* leaves the table with the one record of the first and is answered 409.
C38_Original ==
  [][\A c \in creating :
       (createLabSessionInsert(c) /\ HasRow(c.body.user_id)) =>
          /\ db' = db
          /\ Cardinality(RowsOf(c.body.user_id)') = 1
          /\ resp'.op = "create"
          /\ resp'.status = 409]_vars

\* C31 as stated: a create request with every required field, for a user
\* without a record, is not rejected as lacking a field, also when the
\* required number `validation` is 0.
C31_Original ==
  [][\A body \in CreateBodies :
       (/\ createLabSessionSelect(body)
        /\ body.user_id # ""
        /\ body.lab_request_id # ""
        /\ body.duration > 0
        /\ ~HasRow(body.user_id)) =>
          /\ resp'.status # 400
          /\ \E c \in creating' : c.body = body]_vars

\* C36 as stated: a schedule request is accepted only with a duration above
\* zero, so the alarm it registers lies after the instant of the call; a
\* request with a duration of zero or below is answered with an error and
\* changes neither the stored fields nor the alarm.
C36_Original ==
  [][resp'.op = "schedule" =>
       IF resp'.success
         THEN storage'["duration"] > 0 /\ alarm' > now
         ELSE storage' = storage /\ alarm' = alarm]_vars

\* The resource ids listed in the record of a user: the primary id and the
\* worker ids.
RowResourceIds(u) ==
  UNION {{r.lab_request_id} \cup Range(WorkerLabRequestIds(r.worker_nodes)) : r \in RowsOf(u)}

\* C37 as stated: when the store deletion of an alarm fire succeeds, a
\* delete-resource request of the fire has succeeded for the primary id and
\* for every worker id that the user's record lists at that moment, the
\* workers that an update request added after the schedule request included.
C37_Original ==
  [][(pc = "db" /\ pc' = "clear") =>
       \A id \in RowResourceIds(h.user_id) :
         \E i \in DeleteCalls : calls[i].id = id /\ calls[i].ok]_vars

\* The running alarm handler read the stored fields of a session that is
\* not the one the actor holds now.
StaleHandler ==
  /\ pc # "idle"
  /\ storage # EmptyStorage
  /\ h.lab_request_id # storage["lab_request_id"]

\* The step is one of the alarm handler.
HandlerStep == pc' # pc \/ calls' # calls

\* The store records of the session the actor holds now.
StoredSessionRows == {r \in RowsOf(Self) : r.lab_request_id = storage["lab_request_id"]}

\* C34 as stated: no step of an alarm handler that began for an earlier
\* session deletes the store record of the user's later session or changes
\* the stored fields of that session.
C34_Original ==
  [][(StaleHandler /\ HandlerStep) =>
        /\ StoredSessionRows \subseteq db'
        /\ storage' = storage]_vars

\* C35 as stated: no step of an alarm handler that began for an earlier
\* session changes the alarm of the later session: the alarm stays at that
\* session's call time plus its duration.
C35_Original ==
  [][(StaleHandler /\ HandlerStep) =>
        /\ alarm' = alarm
        /\ alarm = DateParse(storage["created_at"]) + storage["duration"] * 60 * 1000]_vars

\* C33 as stated: a schedule request that is answered with an error, for
\* a missing field or for an internal failure, leaves the stored fields and
\* the alarm as they were; one that is answered with success leaves all
\* five fields stored and an alarm pending.
C33_Original ==
  [][resp'.op = "schedule" =>
       IF resp'.success
         THEN DOMAIN storage' = StorageKeys /\ alarm' # NoAlarm
         ELSE storage' = storage /\ alarm' = alarm]_vars

\* C32 as stated: whenever the actor holds a user id and none of its
\* operations is running, an alarm is pending (or a due alarm is about to
\* be delivered), also after a storage operation of a schedule or cancel
\* request has failed.
C32_Original ==
  (pc = "idle" /\ "user_id" \in DOMAIN storage) => (alarm # NoAlarm \/ fired)

====
